---- MODULE Spec2Model ----
(***************************************************************************)
(* A model of merkle_tree.cpp: build_merkle_tree, generate_merkle_proof    *)
(* and verify over a heap of MerkleNode objects.                           *)
(*                                                                         *)
(* Strings are sequences of character codes, so that operator+ is \o and   *)
(* operator< is the lexicographic order of std::string.  std::hash<string> *)
(* is implementation defined: it is modelled as a table H that is fixed    *)
(* once a string has been hashed (the same input always gives the same     *)
(* output) and whose entries are chosen freely among the size_t values of  *)
(* HashValues when a string is hashed for the first time.                  *)
(***************************************************************************)
EXTENDS Naturals, Integers, Sequences, FiniteSets, TLC

\* ---------------------------------------------------------------- bounds
\* longest block vector the caller passes to build_merkle_tree
MaxBlocks == 3
\* longest block vector of the padding-only specification SpecPad
MaxPadBlocks == 6
\* number of distinct values std::hash takes in the model
NumDigests == 2

\* ------------------------------------------------------------- constants
NULL == 0
\* an indeterminate pointer: what an out-of-range nodes[0] may yield
WILD == -1

\* the blocks a caller passes: "A" and "_"
BlockA == <<65>>
Underscore == <<95>>
Blocks == {BlockA, Underscore}

\* a padding loop that appends the empty block instead of "_"
SentinelEmpty == <<>>

\* the block the padding loop appends: "_" (line 89)
Sentinel == <<95>>

\* the values of std::hash<string> used by the model: 9, 10, 11, ...
HashValues == {8 + d : d \in 1..NumDigests}

VARIABLES
  pc,            \* position of the caller / the running function
  input,         \* the vector the caller passed to build_merkle_tree
  prevInput,     \* the vector of the caller's earlier build call
  prevRoot,      \* the root the earlier build call returned
  data_blocks,   \* build_merkle_tree: its by-value parameter
  nodes,         \* build_merkle_tree: the working vector of node pointers
  heap,          \* every MerkleNode allocated with new, by address 1..
  root,          \* the pointer build_merkle_tree returned
  oob,           \* an out-of-range element of nodes was read
  H,             \* std::hash<string>, as far as it has been evaluated
  leaf,          \* generate_merkle_proof: its leaf argument
  newNode,       \* generate_merkle_proof: the local newNode
  proof,         \* generate_merkle_proof: the local proof
  vleaf,         \* verify: its leaf argument
  merkle_proof,  \* verify: its merkle_proof argument
  idx,           \* verify: number of proof entries consumed
  current_hash,  \* verify: the local current_hash
  result         \* verify: "unset", "true" or "false"

vars == <<pc, input, prevInput, prevRoot, data_blocks, nodes, heap, root, oob,
          H, leaf, newNode, proof, vleaf, merkle_proof, idx, current_hash,
          result>>

buildVars == <<data_blocks, nodes, heap, root, oob>>
genVars == <<leaf, newNode, proof>>
verifyVars == <<vleaf, merkle_proof, idx, current_hash, result>>
callerVars == <<input, prevInput, prevRoot>>

\* ------------------------------------------------------------ primitives
\* bitwise AND of two size_t values (line 88)
RECURSIVE BitAnd(_, _)
BitAnd(a, b) ==
  IF a = 0 \/ b = 0 THEN 0
  ELSE (a % 2) * (b % 2) + 2 * BitAnd(a \div 2, b \div 2)

\* size & (size - 1) in size_t arithmetic (line 88).  0 - 1 wraps to 2^64 - 1,
\* all bits set, and 0 & (2^64 - 1) is 0; no other size wraps.
AndPred(size) == IF size = 0 THEN 0 ELSE BitAnd(size, size - 1)

\* a padding loop that only pads odd sizes
PadCondOdd(size) == size % 2 # 0

\* a padding loop that also pads until there are two blocks
PadCondMinTwo(size) == size < 2 \/ AndPred(size) # 0

\* the condition of the padding loop (line 88)
PadCond(size) == AndPred(size) # 0

\* std::to_string of a size_t: its decimal digits (lines 72, 78)
RECURSIVE to_string(_)
to_string(n) ==
  IF n < 10 THEN <<48 + n>> ELSE to_string(n \div 10) \o <<48 + (n % 10)>>

\* std::string operator< : lexicographic, a proper prefix is smaller (line 167)
StrLess(a, b) ==
  \E p \in 1..Len(b) :
    /\ \A j \in 1..(p - 1) : j <= Len(a) /\ a[j] = b[j]
    /\ (p > Len(a) \/ a[p] < b[p])

\* the values std::hash<string> may return for s, given what it returned so far
HashOutcomes(s) == IF s \in DOMAIN H THEN {H[s]} ELSE HashValues

\* the hash table after std::hash<string> returned v for s
Hashed(s, v) == IF s \in DOMAIN H THEN H ELSE H @@ (s :> v)

\* the argument combine_hashes passes to std::hash (line 78)
CombineArg(left_hash, right_hash) == left_hash \o right_hash

\* MerkleNode(string h) (line 38)
MerkleNode(h) == [hash |-> h, left |-> NULL, right |-> NULL, parent |-> NULL]

\* the vectors the caller may pass, up to a given length
Inputs(maxLen) == UNION {[1..n -> Blocks] : n \in 0..maxLen}

\* the leaves below node n, left to right (what a caller holding the root
\* can reach by following left and right)
RECURSIVE LeavesOf(_)
LeavesOf(n) ==
  IF n = NULL THEN <<>>
  ELSE IF heap[n].left = NULL /\ heap[n].right = NULL THEN <<n>>
  ELSE LeavesOf(heap[n].left) \o LeavesOf(heap[n].right)

ValidRoot == root \in 1..Len(heap)

\* ------------------------------------------------------------------ Init
Init ==
  /\ pc = "idle"
  /\ input = <<>>
  /\ prevInput = <<>>
  /\ prevRoot = NULL
  /\ data_blocks = <<>>
  /\ nodes = <<>>
  /\ heap = <<>>
  /\ root = NULL
  /\ oob = FALSE
  /\ H = <<>>
  /\ leaf = NULL
  /\ newNode = NULL
  /\ proof = <<>>
  /\ vleaf = NULL
  /\ merkle_proof = <<>>
  /\ idx = 0
  /\ current_hash = <<>>
  /\ result = "unset"

\* ----------------------------------------------------- build_merkle_tree
\* the caller calls build_merkle_tree(blocks) (line 82, as in line 190)
CallBuild(maxLen) ==
  /\ pc = "idle"
  /\ \E blocks \in Inputs(maxLen) :
       /\ input' = blocks
       /\ data_blocks' = blocks
  /\ pc' = "pad"
  /\ UNCHANGED <<prevInput, prevRoot, nodes, heap, root, oob, H>>
  /\ UNCHANGED <<genVars, verifyVars>>

\* one iteration of the padding loop (lines 88-90)
PadStep ==
  /\ pc = "pad"
  /\ PadCond(Len(data_blocks))
  /\ data_blocks' = Append(data_blocks, Sentinel)
  /\ UNCHANGED <<pc, nodes, heap, root, oob, H>>
  /\ UNCHANGED <<callerVars, genVars, verifyVars>>

\* the padding loop exits (line 88); nodes is declared empty (line 99)
PadDone ==
  /\ pc = "pad"
  /\ ~PadCond(Len(data_blocks))
  /\ nodes' = <<>>
  /\ pc' = "leaves"
  /\ UNCHANGED <<data_blocks, heap, root, oob, H>>
  /\ UNCHANGED <<callerVars, genVars, verifyVars>>

\* one iteration of the leaf loop (lines 100-104); its index i is Len(nodes)
LeafStep ==
  /\ pc = "leaves"
  /\ Len(nodes) < Len(data_blocks)
  /\ LET block == data_blocks[Len(nodes) + 1] IN
       \E v \in HashOutcomes(block) :
         /\ H' = Hashed(block, v)
         /\ heap' = Append(heap, MerkleNode(to_string(v)))
         /\ nodes' = Append(nodes, Len(heap) + 1)
  /\ UNCHANGED <<pc, data_blocks, root, oob>>
  /\ UNCHANGED <<callerVars, genVars, verifyVars>>

\* the leaf loop exits (line 100)
LeavesDone ==
  /\ pc = "leaves"
  /\ ~(Len(nodes) < Len(data_blocks))
  /\ pc' = "reduce"
  /\ UNCHANGED <<buildVars, H>>
  /\ UNCHANGED <<callerVars, genVars, verifyVars>>

\* a reduction step that forgets right->parent = parent
LinkedLeftOnly(left, right, parent, h) ==
  [n \in 1..parent |->
     IF n = parent
       THEN [hash |-> h, left |-> left, right |-> right, parent |-> NULL]
     ELSE IF n = left
       THEN [heap[n] EXCEPT !.parent = parent]
     ELSE heap[n]]

\* the heap after lines 117-121: the new node at address parent with hash h,
\* its children left and right, and their parent pointers set to it
Linked(left, right, parent, h) ==
  [n \in 1..parent |->
     IF n = parent
       THEN [hash |-> h, left |-> left, right |-> right, parent |-> NULL]
     ELSE IF n = left \/ n = right
       THEN [heap[n] EXCEPT !.parent = parent]
     ELSE heap[n]]

\* a reduction step that inserts the parent at the front of nodes
NextNodesFront(parent) == <<parent>> \o SubSeq(nodes, 3, Len(nodes))

\* nodes after the two erase calls and the push_back (lines 123-126)
NextNodes(parent) == Append(SubSeq(nodes, 3, Len(nodes)), parent)

\* one iteration of the reduction loop (lines 105-127)
ReduceStep ==
  /\ pc = "reduce"
  /\ Len(nodes) > 1
  /\ LET left == nodes[1]
         right == nodes[2]
         parent == Len(heap) + 1
         arg == CombineArg(heap[left].hash, heap[right].hash)
     IN  \E v \in HashOutcomes(arg) :
           /\ H' = Hashed(arg, v)
           /\ heap' = Linked(left, right, parent, to_string(v))
           /\ nodes' = NextNodes(parent)
  /\ UNCHANGED <<pc, data_blocks, root, oob>>
  /\ UNCHANGED <<callerVars, genVars, verifyVars>>

\* the reduction loop exits and nodes[0] is returned (lines 105, 129).
\* With an empty nodes the read is out of range: undefined behaviour, which
\* either ends the process or yields some pointer.
ReturnRoot ==
  /\ pc = "reduce"
  /\ ~(Len(nodes) > 1)
  /\ \/ /\ Len(nodes) = 1
        /\ root' = nodes[1]
        /\ pc' = "built"
        /\ oob' = oob
     \/ /\ Len(nodes) = 0
        /\ oob' = TRUE
        /\ \/ pc' = "crashed" /\ root' = NULL
           \/ pc' = "built" /\ root' \in {NULL, WILD}
  /\ UNCHANGED <<data_blocks, nodes, heap, H>>
  /\ UNCHANGED <<callerVars, genVars, verifyVars>>

\* blocks followed by as many "_" blocks as bring its length to a power of two
RECURSIVE UnderscorePadded(_)
UnderscorePadded(blocks) ==
  IF \E e \in 0..Len(blocks) : 2 ^ e = Len(blocks) THEN blocks
  ELSE UnderscorePadded(Append(blocks, Underscore))

\* the caller calls build_merkle_tree again, now passing the blocks of its
\* earlier call followed by the "_" blocks that bring them to a power of two
CallBuildPadded ==
  /\ pc = "built"
  /\ ValidRoot
  /\ prevRoot = NULL
  /\ UnderscorePadded(input) # input
  /\ prevInput' = input
  /\ prevRoot' = root
  /\ input' = UnderscorePadded(input)
  /\ data_blocks' = UnderscorePadded(input)
  /\ nodes' = <<>>
  /\ root' = NULL
  /\ pc' = "pad"
  /\ UNCHANGED <<heap, oob, H>>
  /\ UNCHANGED <<genVars, verifyVars>>

\* ------------------------------------------------- generate_merkle_proof
\* the caller calls generate_merkle_proof(root, l) for a leaf l of the tree
\* (lines 137-145)
GenCall ==
  /\ pc = "built"
  /\ ValidRoot
  /\ \E l \in {LeavesOf(root)[j] : j \in 1..Len(LeavesOf(root))} :
       /\ leaf' = l
       /\ newNode' = l
  /\ proof' = <<>>
  /\ pc' = "gen"
  /\ UNCHANGED <<buildVars, H>>
  /\ UNCHANGED <<callerVars, verifyVars>>

\* a walk that always takes the parent's left child as the sibling
SiblingLeft(n) == heap[heap[n].parent].left

\* the sibling of node n (line 147)
Sibling(n) ==
  IF heap[heap[n].parent].left = n
    THEN heap[heap[n].parent].right
    ELSE heap[heap[n].parent].left

\* one iteration of the upward walk (lines 146-150)
GenStep ==
  /\ pc = "gen"
  /\ heap[newNode].parent # NULL
  /\ proof' = Append(proof, heap[Sibling(newNode)].hash)
  /\ newNode' = heap[newNode].parent
  /\ UNCHANGED <<pc, leaf>>
  /\ UNCHANGED <<buildVars, H>>
  /\ UNCHANGED <<callerVars, verifyVars>>

\* the walk reached the node without parent; proof is returned (lines 146, 151)
GenDone ==
  /\ pc = "gen"
  /\ heap[newNode].parent = NULL
  /\ pc' = "proved"
  /\ UNCHANGED <<genVars, buildVars, H>>
  /\ UNCHANGED <<callerVars, verifyVars>>

\* ---------------------------------------------------------------- verify
\* the digests a proof entry can hold
DigestStrings == {to_string(v) : v \in HashValues}

\* proof with entry j replaced by digest d
Replaced(j, d) == [proof EXCEPT ![j] = d]

\* the proofs the caller may pass for the leaf it generated proof for:
\* proof itself, proof with one entry replaced, or no entries at all
ProofArgs ==
  {proof} \cup {<<>>} \cup
  {Replaced(j, d) : j \in 1..Len(proof), d \in DigestStrings}

\* the caller calls verify(root, l, p) (lines 157-164): with the leaf and the
\* proof of generate_merkle_proof, with another leaf of the tree, or with
\* another proof
VerifyCall ==
  /\ pc = "proved"
  /\ \E l \in {LeavesOf(root)[j] : j \in 1..Len(LeavesOf(root))},
        p \in ProofArgs :
       /\ l = leaf \/ p = proof
       /\ vleaf' = l
       /\ merkle_proof' = p
       /\ current_hash' = heap[l].hash
  /\ idx' = 0
  /\ result' = "unset"
  /\ pc' = "verify"
  /\ UNCHANGED <<buildVars, H>>
  /\ UNCHANGED <<callerVars, genVars>>

\* a verify that always puts its running hash on the left
VerifyArgCurrentFirst(cur, sibling_hash) == CombineArg(cur, sibling_hash)

\* the argument verify hands to std::hash for one proof entry (lines 167-171)
VerifyArg(cur, sibling_hash) ==
  IF StrLess(cur, sibling_hash)
    THEN CombineArg(cur, sibling_hash)
    ELSE CombineArg(sibling_hash, cur)

\* one iteration of the loop over the proof (lines 166-172)
VerifyStep ==
  /\ pc = "verify"
  /\ idx < Len(merkle_proof)
  /\ LET arg == VerifyArg(current_hash, merkle_proof[idx + 1]) IN
       \E v \in HashOutcomes(arg) :
         /\ H' = Hashed(arg, v)
         /\ current_hash' = to_string(v)
  /\ idx' = idx + 1
  /\ UNCHANGED <<pc, vleaf, merkle_proof, result>>
  /\ UNCHANGED <<buildVars>>
  /\ UNCHANGED <<callerVars, genVars>>

\* what verify returns for the hash cur it recomputed (lines 176-179)
Verdict(cur) == IF cur # heap[root].hash THEN "false" ELSE "true"

\* the loop is over; the comparison with the root's hash (lines 176-179)
VerifyDone ==
  /\ pc = "verify"
  /\ ~(idx < Len(merkle_proof))
  /\ result' = Verdict(current_hash)
  /\ pc' = "verified"
  /\ UNCHANGED <<vleaf, merkle_proof, idx, current_hash>>
  /\ UNCHANGED <<buildVars, H>>
  /\ UNCHANGED <<callerVars, genVars>>

\* --------------------------------------------------------- specifications
Next ==
  \/ CallBuild(MaxBlocks)
  \/ PadStep
  \/ PadDone
  \/ LeafStep
  \/ LeavesDone
  \/ ReduceStep
  \/ ReturnRoot
  \/ CallBuildPadded
  \/ GenCall
  \/ GenStep
  \/ GenDone
  \/ VerifyCall
  \/ VerifyStep
  \/ VerifyDone

Spec == Init /\ [][Next]_vars

\* the padding loop alone, over longer block vectors
NextPad ==
  \/ CallBuild(MaxPadBlocks)
  \/ PadStep
  \/ PadDone

SpecPad == Init /\ [][NextPad]_vars
\* ------------------------------------------------- vocabulary of the claims
IsPow2(p) == \E e \in 0..p : 2 ^ e = p

\* the smallest power of two that is at least n, for n >= 1
SmallestPow2(n) ==
  CHOOSE p \in 1..(2 * n) :
    /\ IsPow2(p) /\ p >= n
    /\ \A q \in 1..(p - 1) : ~(IsPow2(q) /\ q >= n)

RECURSIVE Log2(_)
Log2(p) == IF p <= 1 THEN 0 ELSE 1 + Log2(p \div 2)

\* the positions at which a build call has returned a root to the caller
BuiltPcs == {"built", "gen", "proved", "verify", "verified"}
ProvedPcs == {"proved", "verify", "verified"}

\* the digest std::hash gave string s, as to_string prints it
HashOf(s) == IF s \in DOMAIN H THEN to_string(H[s]) ELSE <<>>

\* number of nodes allocated before the running (or last) build call began:
\* the root of the earlier call was the last node that call allocated
Base == prevRoot

\* the digest a Merkle tree over data_blocks holds at level k (0 = leaves),
\* position j (0 = leftmost), combining strictly by position
RECURSIVE ExpectedHash(_, _)
ExpectedHash(k, j) ==
  IF k = 0
    THEN IF j + 1 \in 1..Len(data_blocks) THEN HashOf(data_blocks[j + 1]) ELSE <<>>
    ELSE HashOf(CombineArg(ExpectedHash(k - 1, 2 * j), ExpectedHash(k - 1, 2 * j + 1)))

\* the position next to j under the same parent
Flip(j) == IF j % 2 = 0 THEN j + 1 ELSE j - 1

\* number of parent links from node n up to a node without parent
RECURSIVE Depth(_)
Depth(n) == IF heap[n].parent = NULL THEN 0 ELSE 1 + Depth(heap[n].parent)

\* the trees below a and b have the same shape and the same hash at every position
RECURSIVE SameTree(_, _)
SameTree(a, b) ==
  IF a = NULL \/ b = NULL THEN a = b
  ELSE /\ heap[a].hash = heap[b].hash
       /\ SameTree(heap[a].left, heap[b].left)
       /\ SameTree(heap[a].right, heap[b].right)

\* simple_hash gave distinct blocks distinct digests
LeafHashInjective ==
  \A b1, b2 \in Blocks :
    (b1 # b2 /\ b1 \in DOMAIN H /\ b2 \in DOMAIN H) => H[b1] # H[b2]

\* combine_hashes gave distinct ordered pairs of digests distinct digests
CombineInjective ==
  \A x1, y1, x2, y2 \in DigestStrings :
    ( /\ <<x1, y1>> # <<x2, y2>>
      /\ CombineArg(x1, y1) \in DOMAIN H
      /\ CombineArg(x2, y2) \in DOMAIN H )
    => H[CombineArg(x1, y1)] # H[CombineArg(x2, y2)]

\* verify was called with the leaf and the proof of generate_merkle_proof
HonestCall == vleaf = leaf /\ merkle_proof = proof

\* position of the proven leaf among the leaves, 0 = leftmost
LeafPos == leaf - Base - 1

\* ------------------------------------------------------------------ claims

\* C1: whenever verify has been run on a leaf of the built tree together with
\* the proof generate_merkle_proof returned for that leaf, it returned true.
RoundTrip == (pc = "verified" /\ HonestCall) => result = "true"

\* C2: a build call with zero blocks is rejected: it reads no out-of-range
\* element of nodes and hands no root back to the caller.
EmptyInputRejected ==
  (pc # "idle" /\ input = <<>>) => (~oob /\ pc \notin {"built", "crashed"})

\* the tree has two leaves with distinct hashes
TwoDistinctLeaves ==
  \E a, b \in 1..Len(LeavesOf(root)) :
    heap[LeavesOf(root)[a]].hash # heap[LeavesOf(root)[b]].hash

\* verify got the proven leaf and its proof with exactly one entry changed
OneEntryReplaced ==
  /\ vleaf = leaf
  /\ Len(merkle_proof) = Len(proof)
  /\ Cardinality({j \in 1..Len(proof) : merkle_proof[j] # proof[j]}) = 1

\* verify got the proof unchanged and another leaf, with another hash
OtherLeafPassed ==
  /\ merkle_proof = proof
  /\ vleaf # leaf
  /\ heap[vleaf].hash # heap[leaf].hash

\* C3: in a tree with two distinct-hash leaves, verify returns false when one
\* entry of the proof was replaced by another digest or when another leaf's
\* (different) hash was passed with the proof.  Stated for runs in which
\* std::hash never collided, which is the reading most favourable to the code.
TamperDetected ==
  ( /\ pc = "verified"
    /\ TwoDistinctLeaves
    /\ OneEntryReplaced \/ OtherLeafPassed
    /\ LeafHashInjective
    /\ CombineInjective )
  => result = "false"

\* C4: the proof of a leaf of a tree over p padded leaves has log2(p) entries,
\* and entry k is the hash next to the leaf's ancestor at height k: the
\* leaf's own neighbour first, the root's other child last.
ProofIsSiblingPath ==
  (pc \in ProvedPcs) =>
    /\ Len(proof) = Log2(Len(data_blocks))
    /\ \A k \in 0..(Len(proof) - 1) :
         proof[k + 1] = ExpectedHash(k, Flip(LeafPos \div (2 ^ k)))

ProofIsSiblingPathWitness ==
  /\ pc = "proved"
  /\ Len(proof) = 2
  /\ LeafPos = 2
  /\ proof[1] # proof[2]
  /\ proof[1] # heap[leaf].hash

PerfectTree ==
  LET p == Len(data_blocks)
      height == Log2(p)
      leaves == LeavesOf(root)
  IN
  /\ (pc = "reduce" /\ Len(input) >= 1) =>
       /\ Len(nodes) >= 1
       /\ Len(nodes) + (Len(heap) - Base - p) = p
  /\ (pc \in BuiltPcs /\ Len(input) >= 1) =>
       /\ nodes = <<root>>
       /\ ValidRoot
       /\ heap[root].parent = NULL
       /\ Len(heap) - Base - p = p - 1
       /\ Len(leaves) = p
       /\ \A j \in 1..Len(leaves) :
            /\ leaves[j] = Base + j
            /\ j <= p => heap[leaves[j]].hash = HashOf(data_blocks[j])
            /\ Depth(leaves[j]) = height
       /\ \A n \in (Base + 1)..Len(heap) :
            (heap[n].left = NULL) <=> (heap[n].right = NULL)

PerfectTreeWitness ==
  /\ pc = "built"
  /\ Len(input) = 3
  /\ Len(heap) = 7
  /\ heap[1].hash # heap[2].hash
  /\ heap[5].hash # heap[6].hash

\* C7: a build over one block pads nothing and returns the leaf itself as the
\* root (the block's hash, no children, no parent); the proof of that leaf is
\* empty; verify with an empty proof returns true exactly when the hash of
\* the leaf it is given is the root's hash, hence true for that tree.
SingleLeaf ==
  /\ (Len(input) = 1 /\ pc \in BuiltPcs) =>
       /\ data_blocks = input
       /\ heap = <<MerkleNode(HashOf(input[1]))>>
       /\ root = 1
  /\ (Len(input) = 1 /\ pc \in ProvedPcs) => proof = <<>>
  /\ (pc = "verified" /\ merkle_proof = <<>>) =>
       (result = "true" <=> heap[vleaf].hash = heap[root].hash)
  /\ (Len(input) = 1 /\ pc = "verified") => result = "true"

SingleLeafWitness ==
  /\ pc = "verified"
  /\ Len(input) = 1
  /\ Len(heap) = 1
  /\ merkle_proof = <<>>

\* every node with a child has two distinct children whose parent pointers
\* point back to it and whose hashes, left then right, combine to its hash.
\* A node is then the child of at most one node: the one its parent pointer
\* names, and of that one only once.
TreeLinks ==
  \A n \in 1..Len(heap) :
       (heap[n].left # NULL \/ heap[n].right # NULL) =>
         /\ heap[n].left \in 1..Len(heap)
         /\ heap[n].right \in 1..Len(heap)
         /\ heap[n].left # heap[n].right
         /\ heap[heap[n].left].parent = n
         /\ heap[heap[n].right].parent = n
         /\ heap[n].hash =
              HashOf(CombineArg(heap[heap[n].left].hash, heap[heap[n].right].hash))

\* a step that creates a node makes the first two nodes of the working vector
\* its left and right child, in that order; no step changes the hash or the
\* children of a node that has children, or the hash of any node; and the
\* steps of generate_merkle_proof and verify leave the heap as it is
TreeSteps ==
  /\ (pc = "reduce" /\ Len(heap') > Len(heap)) =>
       /\ heap'[Len(heap')].left = nodes[1]
       /\ heap'[Len(heap')].right = nodes[2]
  /\ \A n \in 1..Len(heap) :
       /\ heap'[n].hash = heap[n].hash
       /\ heap'[n].left = heap[n].left
       /\ heap'[n].right = heap[n].right
       /\ heap[n].parent # NULL => heap'[n].parent = heap[n].parent
  /\ (pc \in {"gen", "proved", "verify"} \/ pc' = "gen") => heap' = heap

\* C8: in every state, during the reduction and after it, the nodes with
\* children satisfy TreeLinks, and every step satisfies TreeSteps.
TreeConsistent == []TreeLinks /\ [][TreeSteps]_vars

TreeConsistentWitness ==
  /\ pc = "verified"
  /\ Len(heap) = 7
  /\ heap[7].hash # heap[5].hash
  /\ heap[3].parent = 6

\* at every level of the proven leaf's path the node on the path is the left
\* child exactly when its hash is smaller than its neighbour's, or the two
\* hashes are equal
PathInVerifyOrder ==
  \A k \in 0..(Log2(Len(data_blocks)) - 1) :
    LET j == LeafPos \div (2 ^ k)
        own == ExpectedHash(k, j)
        other == ExpectedHash(k, Flip(j))
    IN  own = other \/ ((j % 2 = 0) <=> StrLess(own, other))

PaddingIndistinguishable ==
  ( /\ pc \in BuiltPcs
    /\ prevRoot # NULL
    /\ ValidRoot
    /\ ~IsPow2(Len(prevInput))
    /\ input = UnderscorePadded(prevInput) )
  => SameTree(prevRoot, root)

PaddingIndistinguishableWitness ==
  /\ pc = "built"
  /\ prevRoot = 7
  /\ root = 14
  /\ prevInput = <<BlockA, Underscore, BlockA>>
  /\ heap[1].hash # heap[2].hash
====
